---------------------------- MODULE Spec2Model ----------------------------
(***************************************************************************)
(* A model of color-rs' src/rgb.rs: the generic Rgb<T> colour, its clamp,  *)
(* inverse, normalize and into_fixed operations, the ToRgb conversions     *)
(* and the RGB -> HSV conversion.                                          *)
(*                                                                         *)
(* The library is a set of pure functions.  Each function is an operator;  *)
(* the state machine is a caller that constructs a colour (Init) and then  *)
(* calls the functions one after the other, each call taking the colour    *)
(* the previous call returned as its receiver.                             *)
(*                                                                         *)
(* Numbers.  Every channel value is an exact rational [n, d] in lowest     *)
(* terms.  An integral channel (u8, u16) holds an integer (d = 1) within   *)
(* the range of its width; a floating channel holds any rational, with     *)
(* d = 0 standing for a non-finite float (the result of a division by      *)
(* zero).  Rounding of f32 is not modelled: every comparison               *)
(* the code makes (==, max, min, != 0) has the same outcome on the rounded *)
(* values as on the exact ones for the inputs of the model, because        *)
(* v / 255 and v / 65535 are injective and monotone in v after rounding.   *)
(***************************************************************************)
EXTENDS Integers, Sequences, FiniteSets

----------------------------------------------------------------------------
(* Bounds of the model *)

\* The longest chain of calls the caller makes on one colour.
MaxCalls == 2

\* Channel samples cover 0 .. EdgeWidth at the low end of the u8 range.
EdgeWidth == 1

----------------------------------------------------------------------------
(* Exact rationals standing for floating-point channel values *)

Abs(i) == IF i < 0 THEN -i ELSE i

RECURSIVE GCD(_, _)
GCD(a, b) == IF b = 0 THEN a ELSE GCD(b, a % b)

\* The non-finite float (inf or NaN, not told apart).
NonFinite == [n |-> 0, d |-> 0]

IsFinite(x) == x.d # 0

\* n / d in lowest terms with a positive denominator.
Rat(n, d) ==
    IF d = 0 THEN NonFinite
    ELSE LET g == GCD(Abs(n), Abs(d))
             s == IF d < 0 THEN -1 ELSE 1
         IN  [n |-> (s * n) \div g, d |-> (s * d) \div g]

FromInt(i) == [n |-> i, d |-> 1]

Zero == FromInt(0)
One  == FromInt(1)

\* The arithmetic reduces by common factors before it multiplies, so that
\* no intermediate product overflows the 32-bit integers of TLC.
RAdd(x, y) ==
    IF IsFinite(x) /\ IsFinite(y)
    THEN LET g == GCD(x.d, y.d)
         IN  Rat(x.n * (y.d \div g) + y.n * (x.d \div g), (x.d \div g) * y.d)
    ELSE NonFinite

RNeg(x) == IF IsFinite(x) THEN [n |-> -x.n, d |-> x.d] ELSE NonFinite

RSub(x, y) == RAdd(x, RNeg(y))

RMul(x, y) ==
    IF IsFinite(x) /\ IsFinite(y)
    THEN IF x.n = 0 \/ y.n = 0 THEN [n |-> 0, d |-> 1]
         ELSE LET g1 == GCD(Abs(x.n), y.d)
                  g2 == GCD(Abs(y.n), x.d)
              IN  Rat((x.n \div g1) * (y.n \div g2), (x.d \div g2) * (y.d \div g1))
    ELSE NonFinite

\* Float division: a zero divisor gives a non-finite value, not a trap.
RDiv(x, y) ==
    IF IsFinite(x) /\ IsFinite(y) /\ y.n # 0
    THEN RMul(x, Rat(y.d, y.n))
    ELSE NonFinite

\* Comparisons; every comparison with a non-finite value is false.
RSign(x) == IF x.n < 0 THEN -1 ELSE IF x.n > 0 THEN 1 ELSE 0
RLt(x, y) == IsFinite(x) /\ IsFinite(y) /\ RSign(RSub(x, y)) < 0
RLe(x, y) == IsFinite(x) /\ IsFinite(y) /\ RSign(RSub(x, y)) <= 0
REq(x, y) == IsFinite(x) /\ IsFinite(y) /\ x = y

RMax(x, y) == IF RLt(x, y) THEN y ELSE x
RMin(x, y) == IF RLt(y, x) THEN y ELSE x

\* Integer quotient rounded toward zero.
TruncDiv(a, b) ==
    IF (a >= 0) = (b > 0) THEN Abs(a) \div Abs(b) ELSE -(Abs(a) \div Abs(b))

\* The integer part of a finite rational, rounded toward zero.
RTrunc(x) == TruncDiv(x.n, x.d)

\* Rust's `%` on floats: the remainder of the division truncated toward
\* zero, which has the sign of the dividend (C's fmod).
RRem(x, y) ==
    IF IsFinite(x) /\ IsFinite(y) /\ y.n # 0
    THEN RSub(x, RMul(y, FromInt(RTrunc(RDiv(x, y)))))
    ELSE NonFinite

----------------------------------------------------------------------------
(* The channel abstraction (trait Channel, trait FloatChannel) *)

IntTypes   == {"u8", "u16"}
FloatTypes == {"f32"}
ChanTypes  == IntTypes \cup FloatTypes

U8Max  == 2^8 - 1
U16Max == 2^16 - 1

\* The largest value of a channel type: the maximum of the integer width,
\* 1.0 for a float.
ChanMax(ty) ==
    IF ty = "u8" THEN FromInt(U8Max)
    ELSE IF ty = "u16" THEN FromInt(U16Max)
    ELSE One

\* Channel::clamp: the value restricted to the closed interval [lo, hi].
clamp(v, lo, hi) ==
    IF RLt(v, lo) THEN lo
    ELSE IF RLt(hi, v) THEN hi
    ELSE v

\* Channel::invert_channel: the complement within the representation,
\* max - v for an integral type and 1.0 - v for a float.
invert_channel(ty, v) == RSub(ChanMax(ty), v)

\* FloatChannel::normalize_channel: the value clamped to [0, 1].
normalize_channel(v) == clamp(v, Zero, One)

\* Channel::to_channel: the linear rescale between the full ranges of the
\* two representations, truncated when the target is integral; the
\* identity within one representation.
to_channel(from, to, v) ==
    IF from = to THEN v
    ELSE IF from \in IntTypes /\ to \in IntTypes
         THEN FromInt(RTrunc(RDiv(RMul(v, ChanMax(to)), ChanMax(from))))
    ELSE IF from \in IntTypes
         THEN RDiv(v, ChanMax(from))
    ELSE IF to \in IntTypes
         THEN FromInt(RTrunc(RMul(normalize_channel(v), ChanMax(to))))
    ELSE v

----------------------------------------------------------------------------
(* struct Rgb<T> and its operations *)

\* Rgb::new: a colour of channel type ty; no validation.
Rgb(ty, r, g, b) == [ty |-> ty, r |-> r, g |-> g, b |-> b]

\* Hsv::new.
Hsv(h, s, v) == [h |-> h, s |-> s, v |-> v]

\* clamp_s with lo and hi exchanged in the blue channel.
clamp_s_swapped(x, lo, hi) ==
    Rgb(x.ty, clamp(x.r, lo, hi),
              clamp(x.g, lo, hi),
              clamp(x.b, hi, lo))

\* Color::clamp_s
clamp_s(x, lo, hi) ==
    Rgb(x.ty, clamp(x.r, lo, hi),
              clamp(x.g, lo, hi),
              clamp(x.b, lo, hi))

\* Color::clamp_c
clamp_c(x, lo, hi) ==
    Rgb(x.ty, clamp(x.r, lo.r, hi.r),
              clamp(x.g, lo.g, hi.g),
              clamp(x.b, lo.b, hi.b))

\* inverse that leaves the blue channel as it is.
inverse_skips_blue(x) ==
    Rgb(x.ty, invert_channel(x.ty, x.r),
              invert_channel(x.ty, x.g),
              x.b)

\* Color::inverse
inverse(x) ==
    Rgb(x.ty, invert_channel(x.ty, x.r),
              invert_channel(x.ty, x.g),
              invert_channel(x.ty, x.b))

\* FloatColor::normalize
normalize(x) ==
    Rgb(x.ty, normalize_channel(x.r),
              normalize_channel(x.g),
              normalize_channel(x.b))

\* Color3::into_fixed
into_fixed(x) == <<x.r, x.g, x.b>>

\* to_rgb that converts the red channel into green as well.
rgb_to_rgb_red_twice(x, U) ==
    Rgb(U, to_channel(x.ty, U, x.r),
           to_channel(x.ty, U, x.r),
           to_channel(x.ty, U, x.b))

\* to_rgb that casts between integral types without rescaling.
rgb_to_rgb_unscaled(x, U) ==
    IF x.ty \in IntTypes /\ U \in IntTypes THEN Rgb(U, x.r, x.g, x.b)
    ELSE Rgb(U, to_channel(x.ty, U, x.r),
                to_channel(x.ty, U, x.g),
                to_channel(x.ty, U, x.b))

\* ToRgb for Rgb<T>
rgb_to_rgb(x, U) ==
    Rgb(U, to_channel(x.ty, U, x.r),
           to_channel(x.ty, U, x.g),
           to_channel(x.ty, U, x.b))

\* The outcome of a call: the value it returned, or the panic it ended in.
ReturnedRgb(x)   == [kind |-> "rgb", rgb |-> x]
ReturnedHsv(x)   == [kind |-> "hsv", hsv |-> x]
ReturnedArray(a) == [kind |-> "array", array |-> a]
Panicked(msg)    == [kind |-> "panic", msg |-> msg]

\* An Rgb<T> written with integer channel values.
RgbOf(ty, r, g, b) == Rgb(ty, FromInt(r), FromInt(g), FromInt(b))

\* to_rgb on a u32 that unpacks 0xRRGGBB instead of panicking.
u32_to_rgb_packed(n, U) ==
    ReturnedRgb(rgb_to_rgb(RgbOf("u8", (n \div 65536) % 256,
                                           (n \div 256) % 256,
                                           n % 256), U))

\* ToRgb for u32
u32_to_rgb(n, U) == Panicked("Not yet implemented")

\* ToRgb for u64
u64_to_rgb(n, U) == Panicked("Not yet implemented")

----------------------------------------------------------------------------
(* ToHsv for Rgb<T: Int> *)

Six   == FromInt(6)
Sixty == FromInt(60)

hsv_max(u) == RMax(RMax(u.r, u.g), u.b)
hsv_min(u) == RMin(RMin(u.r, u.g), u.b)

\* to_hsv without the check of the chroma.
is_chromatic_always(chr) == TRUE

\* `chr != Float::zero()`
is_chromatic(chr) == ~REq(chr, Zero)

\* The branch of the maximum channel: r is tried first, then g, then b.
hue_segment(u, mx, chr) ==
    IF REq(u.r, mx)      THEN RRem(RDiv(RSub(u.g, u.b), chr), Six)
    ELSE IF REq(u.g, mx) THEN RAdd(RDiv(RSub(u.b, u.r), chr), FromInt(2))
    ELSE                      RAdd(RDiv(RSub(u.r, u.g), chr), FromInt(4))

\* The hue with `* cast(60u8)` bound to the last else branch only.
hsv_hue_scales_last_branch(u, mx, chr) ==
    IF REq(u.r, mx)      THEN RRem(RDiv(RSub(u.g, u.b), chr), Six)
    ELSE IF REq(u.g, mx) THEN RAdd(RDiv(RSub(u.b, u.r), chr), FromInt(2))
    ELSE RMul(RAdd(RDiv(RSub(u.r, u.g), chr), FromInt(4)), Sixty)

\* `let h = if .. { .. } else if .. { .. } else { .. } * cast(60u8)`: the
\* whole conditional is the left operand of the product.
hsv_hue(u, mx, chr) == RMul(hue_segment(u, mx, chr), Sixty)

\* The saturation with dividend and divisor exchanged.
hsv_saturation_inverted(chr, mx) == RDiv(mx, chr)

\* `let s = chr / mx`
hsv_saturation(chr, mx) == RDiv(chr, mx)

\* The else branch with the arguments of Hsv::new out of order.
hsv_degenerate_swapped(mx) == Hsv(Zero, mx, Zero)

\* The else branch: `Hsv::new(zero, zero, mx)`
hsv_degenerate(mx) == Hsv(Zero, Zero, mx)

\* ToHsv::to_hsv
to_hsv(x, U) ==
    LET rgb_u == rgb_to_rgb(x, U)
        mx    == hsv_max(rgb_u)
        mn    == hsv_min(rgb_u)
        chr   == RSub(mx, mn)
    IN  IF is_chromatic(chr)
        THEN Hsv(hsv_hue(rgb_u, mx, chr), hsv_saturation(chr, mx), mx)
        ELSE hsv_degenerate(mx)

\* The divisors of the divisions one call of to_hsv evaluates, in order:
\* chr for the hue, mx for the saturation; none in the else branch.
to_hsv_divisors(x, U) ==
    LET rgb_u == rgb_to_rgb(x, U)
        mx    == hsv_max(rgb_u)
        mn    == hsv_min(rgb_u)
        chr   == RSub(mx, mn)
    IN  IF is_chromatic(chr) THEN <<chr, mx>> ELSE <<>>

----------------------------------------------------------------------------
(* The inputs of the model *)

\* u8 channel values: the low end of the range, the values of the tests
\* (0x99, 0xA0) and the maximum.
SamplesU8 == (0 .. EdgeWidth) \cup {153, 160, U8Max}

Gray(ty, v) == RgbOf(ty, v, v, v)

Grays     == {Gray("u8", v) : v \in 0 .. U8Max}
Primaries == {RgbOf("u8", c, 0, 0) : c \in 1 .. U8Max}
             \cup {RgbOf("u8", 0, c, 0) : c \in 1 .. U8Max}
             \cup {RgbOf("u8", 0, 0, c) : c \in 1 .. U8Max}
Cube      == {RgbOf("u8", r, g, b) : r \in SamplesU8, g \in SamplesU8, b \in SamplesU8}

Inputs == Grays \cup Primaries \cup Cube

\* The bounds a caller clamps with, per channel type.
ClampBounds(ty) ==
    IF ty = "u8" THEN {FromInt(16), FromInt(160)}
    ELSE IF ty = "u16" THEN {FromInt(4112), FromInt(41121)}
    ELSE {Rat(-1, 2), Rat(1, 2), Rat(3, 2)}

ClampLows(ty) ==
    IF ty = "u8" THEN {RgbOf(ty, 0, 16, 160)}
    ELSE IF ty = "u16" THEN {RgbOf(ty, 0, 4112, 41121)}
    ELSE {Rgb(ty, Rat(-1, 2), Zero, Rat(1, 2))}

ClampHighs(ty) ==
    IF ty = "u8" THEN {RgbOf(ty, 160, 160, 255), RgbOf(ty, 255, 16, 160)}
    ELSE IF ty = "u16" THEN {RgbOf(ty, 41121, 41121, 65535), RgbOf(ty, 65535, 4112, 41121)}
    ELSE {Rgb(ty, One, One, One), Rgb(ty, Rat(1, 2), Rat(3, 2), Rat(1, 2))}

\* Packed integers handed to the integer ToRgb implementations.
PackedInputs == {10066329, 2147483647}

----------------------------------------------------------------------------
(* The caller *)

VARIABLES
    cur,    \* the colour the caller holds
    self,   \* the receiver of the last call
    op,     \* the last call
    prev,   \* the call before it
    args,   \* its arguments
    out,    \* its outcome: the value returned, or a panic
    divs,   \* the divisors of the divisions the last call evaluated
    calls   \* the number of calls made

vars == <<cur, self, op, prev, args, out, divs, calls>>

\* The arguments of a call, by the shape of its signature.
NoArgs         == [n_args |-> 0]
Bounds(lo, hi) == [lo |-> lo, hi |-> hi]
Target(U)      == [U |-> U]

Init ==
    /\ cur \in Inputs
    /\ self = cur
    /\ op = "new"
    /\ prev = "none"
    /\ args = NoArgs
    /\ out = ReturnedRgb(cur)
    /\ divs = <<>>
    /\ calls = 0

\* A call can be made: the chain is not exhausted and no call has panicked.
CanCall == calls < MaxCalls /\ out.kind # "panic"

\* A call on the held colour that returns a colour, which the caller keeps.
CallRgb(name, a, result) ==
    /\ self' = cur
    /\ op' = name
    /\ prev' = op
    /\ args' = a
    /\ out' = ReturnedRgb(result)
    /\ cur' = result
    /\ divs' = <<>>
    /\ calls' = calls + 1

ClampS ==
    /\ CanCall
    /\ \E lo \in ClampBounds(cur.ty), hi \in ClampBounds(cur.ty) :
          CallRgb("clamp_s", Bounds(lo, hi),
                  clamp_s(cur, lo, hi))

ClampC ==
    /\ CanCall
    /\ \E lo \in ClampLows(cur.ty), hi \in ClampHighs(cur.ty) :
          CallRgb("clamp_c", Bounds(lo, hi),
                  clamp_c(cur, lo, hi))

Inverse ==
    /\ CanCall
    /\ CallRgb("inverse", NoArgs, inverse(cur))

\* normalize exists for floating channel types only.
Normalize ==
    /\ CanCall
    /\ cur.ty \in FloatTypes
    /\ CallRgb("normalize", NoArgs, normalize(cur))

IntoFixed ==
    /\ CanCall
    /\ self' = cur
    /\ op' = "into_fixed"
    /\ prev' = op
    /\ args' = NoArgs
    /\ out' = ReturnedArray(into_fixed(cur))
    /\ divs' = <<>>
    /\ calls' = calls + 1
    /\ UNCHANGED cur

ToRgb ==
    /\ CanCall
    /\ \E U \in ChanTypes :
          CallRgb("to_rgb", Target(U),
                  rgb_to_rgb(cur, U))

\* to_hsv exists for integral channel types only; the target is a float.
ToHsv ==
    /\ CanCall
    /\ cur.ty \in IntTypes
    /\ \E U \in FloatTypes :
          /\ self' = cur
          /\ op' = "to_hsv"
          /\ prev' = op
          /\ args' = Target(U)
          /\ out' = ReturnedHsv(to_hsv(cur, U))
          /\ divs' = to_hsv_divisors(cur, U)
          /\ calls' = calls + 1
          /\ UNCHANGED cur

\* A call of to_rgb on a packed integer of type ty.
CallPacked(ty, n, U, outcome) ==
    /\ self' = [ty |-> ty, n |-> n]
    /\ op' = "to_rgb"
    /\ prev' = op
    /\ args' = Target(U)
    /\ out' = outcome
    /\ cur' = IF outcome.kind = "rgb" THEN outcome.rgb ELSE cur
    /\ divs' = <<>>
    /\ calls' = calls + 1

U32ToRgb ==
    /\ CanCall
    /\ \E n \in PackedInputs, U \in ChanTypes :
          CallPacked("u32", n, U, u32_to_rgb(n, U))

U64ToRgb ==
    /\ CanCall
    /\ \E n \in PackedInputs, U \in ChanTypes :
          CallPacked("u64", n, U, u64_to_rgb(n, U))

Next ==
    \/ ClampS
    \/ ClampC
    \/ Inverse
    \/ Normalize
    \/ IntoFixed
    \/ ToRgb
    \/ ToHsv
    \/ U32ToRgb
    \/ U64ToRgb

Spec == Init /\ [][Next]_vars

----------------------------------------------------------------------------
(* Vocabulary of the properties *)

\* The last call was `name`, made on a colour (not on a packed integer).
Called(name) == op = name /\ self.ty \in ChanTypes

IsGray(x) == x.r = x.g /\ x.g = x.b

\* The channels of a colour of an integral type, as integers.
IntChannels(x) == {x.r.n, x.g.n, x.b.n}
IntMax3(x) == CHOOSE m \in IntChannels(x) : \A k \in IntChannels(x) : k <= m
IntMin3(x) == CHOOSE m \in IntChannels(x) : \A k \in IntChannels(x) : m <= k

InUnit(q) == RLe(Zero, q) /\ RLe(q, One)

Channels == {"r", "g", "b"}

----------------------------------------------------------------------------
(* The properties *)

\* C1: for every integral RGB input whose channels are not all equal,
\* to_hsv returns a hue h with 0 <= h < 360; when red is the maximum and
\* g < b the negative raw segment is wrapped into [0, 6) before scaling.
C1_HueInRange ==
    (Called("to_hsv") /\ ~IsGray(self)) =>
        /\ RLe(Zero, out.hsv.h)
        /\ RLt(out.hsv.h, FromInt(360))

\* C2: for every u8 value c > 0, to_hsv maps (c,0,0) to hue 0, (0,c,0) to
\* hue 120 and (0,0,c) to hue 240, each with saturation exactly 1 and
\* value c/255.
C2_PrimaryAnchors ==
    (Called("to_hsv") /\ self.ty = "u8") =>
        \A c \in 1 .. U8Max :
            /\ self = RgbOf("u8", c, 0, 0) =>
                   out.hsv = Hsv(FromInt(0), One, Rat(c, 255))
            /\ self = RgbOf("u8", 0, c, 0) =>
                   out.hsv = Hsv(FromInt(120), One, Rat(c, 255))
            /\ self = RgbOf("u8", 0, 0, c) =>
                   out.hsv = Hsv(FromInt(240), One, Rat(c, 255))

C2_Witness ==
    /\ Called("to_hsv")
    /\ self = RgbOf("u8", 0, 153, 0)
    /\ out.hsv = Hsv(FromInt(120), One, Rat(6, 10))

\* C3: for every integral RGB value with r = g = b, to_hsv returns hue 0,
\* saturation 0 and value the common channel rescaled to the target
\* representation (white gives (0, 0, 1), black gives (0, 0, 0)).
C3_Achromatic ==
    (Called("to_hsv") /\ IsGray(self)) =>
        /\ out.hsv = Hsv(Zero, Zero, Rat(self.r.n, ChanMax(self.ty).n))
        /\ self = Gray("u8", 255) => out.hsv = Hsv(Zero, Zero, One)
        /\ self = Gray("u8", 0) => out.hsv = Hsv(Zero, Zero, Zero)

C3_Witness ==
    /\ Called("to_hsv")
    /\ self = Gray("u8", 255)
    /\ out.hsv = Hsv(Zero, Zero, One)

\* C4: for every u8 value v, Rgb<u8>(v,v,v).to_rgb::<u16>() has v * 0x0101
\* in each channel, and converting that result back with to_rgb::<u8>()
\* yields the original v.
C4_ByteReplication ==
    [][ /\ (Called("to_rgb")' /\ self'.ty = "u8" /\ IsGray(self')
               /\ args'.U = "u16") =>
            out'.rgb = Gray("u16", self'.r.n * 257)
        /\ (Called("to_rgb") /\ self.ty = "u8" /\ IsGray(self)
               /\ args.U = "u16"
               /\ Called("to_rgb")' /\ args'.U = "u8") =>
            (self' = out.rgb /\ out'.rgb = self)
      ]_vars

C4_Witness ==
    /\ prev = "to_rgb" /\ Called("to_rgb")
    /\ self = Gray("u16", 41120)
    /\ args.U = "u8"
    /\ out.rgb = Gray("u8", 160)
    /\ calls = 2

\* C5: converting an RGB value to its own channel representation is the
\* identity, each output channel being the matching input channel.
C5_SelfConversion ==
    (Called("to_rgb") /\ args.U = self.ty) =>
        /\ out.rgb = self
        /\ \A ch \in Channels : out.rgb[ch] = self[ch]

C5_Witness ==
    /\ Called("to_rgb")
    /\ self = RgbOf("u8", 255, 0, 1)
    /\ args.U = "u8"
    /\ out.rgb = RgbOf("u8", 255, 0, 1)

\* C6: for all lo <= hi, every channel of x.clamp_s(lo, hi) lies in
\* [lo, hi], and a channel already inside [lo, hi] is returned unchanged.
C6_ClampContainment ==
    (Called("clamp_s") /\ RLe(args.lo, args.hi)) =>
        \A ch \in Channels :
            /\ RLe(args.lo, out.rgb[ch])
            /\ RLe(out.rgb[ch], args.hi)
            /\ (RLe(args.lo, self[ch]) /\ RLe(self[ch], args.hi)) =>
                   out.rgb[ch] = self[ch]

C6_Witness ==
    /\ Called("clamp_s")
    /\ self = RgbOf("u8", 0, 153, 255)
    /\ args = Bounds(FromInt(16), FromInt(160))
    /\ out.rgb = RgbOf("u8", 16, 153, 160)

\* C7: for integral representations, inverse replaces each channel v by
\* (representation max - v) without wraparound, and applying inverse twice
\* returns exactly the original colour.
C7_InverseInvolution ==
    [][ /\ (Called("inverse")' /\ self'.ty \in IntTypes) =>
            \A ch \in Channels :
                /\ out'.rgb[ch].d = 1
                /\ out'.rgb[ch].n = ChanMax(self'.ty).n - self'[ch].n
                /\ out'.rgb[ch].n \in 0 .. ChanMax(self'.ty).n
        /\ (Called("inverse") /\ self.ty \in IntTypes /\ Called("inverse")') =>
            (self' = out.rgb /\ out'.rgb = self)
      ]_vars

C7_Witness ==
    /\ prev = "inverse" /\ Called("inverse")
    /\ self = RgbOf("u8", 0, 255, 102)
    /\ out.rgb = RgbOf("u8", 255, 0, 153)

\* C8: to_rgb on a packed u32 or u64 integer fails for every input value
\* and every target channel type, and the failure is an explicit
\* not-supported error result the caller can detect, not a crash.
C8_ErrorResult ==
    (op = "to_rgb" /\ self.ty \in {"u32", "u64"}) =>
        out.kind \notin {"rgb", "panic"}

\* C8 as amended: to_rgb on a packed u32 or u64 integer fails for every
\* input value and every target channel type by panicking with
\* "Not yet implemented"; it returns nothing, and the caller makes no
\* further call.
C8_Panics ==
    /\ (op = "to_rgb" /\ self.ty \in {"u32", "u64"}) =>
           out = Panicked("Not yet implemented")
    /\ out.kind = "panic" => ~ENABLED Next

C8_Witness ==
    /\ op = "to_rgb"
    /\ self = [ty |-> "u32", n |-> 10066329]
    /\ args.U = "u8"
    /\ out.kind = "panic"

\* C9: to_hsv never divides by zero: both divisions come after the check
\* chr != 0, and mx = 0 implies chr = 0, so black and every other gray take
\* the branch where no division is attempted.
C9_NoDivisionByZero ==
    Called("to_hsv") =>
        /\ \A i \in DOMAIN divs : IsFinite(divs[i]) /\ divs[i].n # 0
        /\ IntMax3(self) = 0 => IntMax3(self) - IntMin3(self) = 0
        /\ IsGray(self) => divs = <<>>
        /\ ~IsGray(self) => Len(divs) = 2

C9_Witness ==
    /\ Called("to_hsv")
    /\ self = Gray("u8", 0)
    /\ divs = <<>>
    /\ out.hsv = Hsv(Zero, Zero, Zero)

\* C10: for every integral RGB input, to_hsv returns value = mx and, when
\* chroma != 0, saturation = (mx - mn) / mx; both lie in [0, 1].
C10_SaturationValue ==
    Called("to_hsv") =>
        LET mx == IntMax3(self)
            mn == IntMin3(self)
        IN  /\ out.hsv.v = Rat(mx, ChanMax(self.ty).n)
            /\ mx # mn => out.hsv.s = Rat(mx - mn, mx)
            /\ InUnit(out.hsv.s)
            /\ InUnit(out.hsv.v)

C10_Witness ==
    /\ Called("to_hsv")
    /\ self = RgbOf("u8", 153, 1, 160)
    /\ out.hsv.s = Rat(159, 160)
    /\ out.hsv.v = Rat(32, 51)

=============================================================================
